---- MODULE Spec2Model ----
(***************************************************************************)
(* A model of tools/djxl_main.cc: the command-line decoder front end.      *)
(*                                                                         *)
(* Two specifications share this module.                                   *)
(*   Spec          main(): argument checks, choice between JPEG            *)
(*                 reconstruction and pixel decoding, the repeat loops,    *)
(*                 alpha blending, encoding and the output fan-out.        *)
(*   SpecFilename  the (layer, frame) loop of main() applied to Filename   *)
(*                 alone, over a grid wide enough for two-digit padding.   *)
(*                                                                         *)
(* Everything outside djxl_main.cc (the decode engine, the encoders, file  *)
(* I/O, the option parser) is an environment whose result is chosen with   *)
(* \E in the action that makes the call.  Every call is appended to `log`, *)
(* so that the observable behaviour of a run is the value of `log` and the *)
(* exit code.                                                              *)
(***************************************************************************)
EXTENDS Integers, Sequences, FiniteSets, TLC

(***************************************************************************)
(* Bounds of the model.                                                    *)
(***************************************************************************)
MaxReps == 2          \* --num_reps is drawn from 0..MaxReps
MaxBytes == 1         \* bytes a single reconstruct call may produce
MaxFrames == 2        \* frames per bitstream group an encoder may return
MaxExtra == 1         \* extra-channel groups an encoder may return
MaxNumFrames == 12    \* SpecFilename: num_frames is drawn from 1..MaxNumFrames
MaxNumLayers == 11    \* SpecFilename: num_layers is drawn from 1..MaxNumLayers
MaxFormats == 3       \* SpecFormats: entries of an encoder's AcceptedFormats()

(***************************************************************************)
(* Strings.  TLC's strings support Len, \o and SubSeq.                     *)
(***************************************************************************)
nullptr == "<nullptr>"      \* a const char* that was never assigned

Min(a, b) == IF a < b THEN a ELSE b

DigitChar(d) == SubSeq("0123456789", d + 1, d + 1)

RECURSIVE IntToStr(_)
\* the decimal digits printf's %d writes for n >= 0
IntToStr(n) == IF n < 10 THEN DigitChar(n)
               ELSE IntToStr(n \div 10) \o DigitChar(n % 10)

RECURSIVE Zeros(_)
Zeros(k) == IF k <= 0 THEN "" ELSE "0" \o Zeros(k - 1)

\* printf's "%0*d": at least `width` characters, zero-filled on the left
FormatZeroPadded(width, n) ==
    LET s == IntToStr(n) IN Zeros(width - Len(s)) \o s

\* snprintf(buf, size, ...): at most size - 1 characters are stored
Snprintf(size, s) == SubSeq(s, 1, Min(Len(s), size - 1))

RECURSIVE Log10Floor(_)
\* static_cast<int>(std::log10(n)) for n >= 1
Log10Floor(n) == IF n < 10 THEN 0 ELSE 1 + Log10Floor(n \div 10)

\* a bug: the digits of the largest index instead of those of the count
digits_OfLargestIndex(n) == 1 + Log10Floor(n - 1)

digits(n) == 1 + Log10Floor(n)

\* a bug: no room for the terminating NUL
FrameBufSize_NoNul(num_frames) == 1 + digits(num_frames)

FrameBufSize(num_frames) == 2 + digits(num_frames)

LayerBufSize(num_layers) == 4 + digits(num_layers)

FrameSuffix(frame_index, num_frames) ==
    IF num_frames > 1
    THEN Snprintf(FrameBufSize(num_frames),
                  "-" \o FormatZeroPadded(digits(num_frames), frame_index))
    ELSE ""

LayerSuffix(layer_index, num_layers) ==
    IF num_layers > 1 /\ layer_index > 0
    THEN Snprintf(LayerBufSize(num_layers),
                  "-ec" \o FormatZeroPadded(digits(num_layers), layer_index))
    ELSE ""

\* a bug: an extra channel of a PPM output keeps the colour extension
ExtensionSuffix_KeepsPpm(extension, layer_index, num_layers, num_frames) ==
    IF (num_frames > 1) \/ (num_layers > 1 /\ layer_index > 0)
    THEN extension
    ELSE ""

ExtensionSuffix(extension, layer_index, num_layers, num_frames) ==
    IF extension = ".ppm" /\ layer_index > 0
    THEN ".pgm"
    ELSE IF (num_frames > 1) \/ (num_layers > 1 /\ layer_index > 0)
         THEN extension
         ELSE ""

\* a bug: "-" is treated like a file name
IsStdout_Never(filename) == FALSE

IsStdout(filename) == filename = "-"

Filename(filename, extension, layer_index, frame_index, num_layers, num_frames) ==
    IF IsStdout(filename) THEN "-"
    ELSE filename
         \o FrameSuffix(frame_index, num_frames)
         \o LayerSuffix(layer_index, num_layers)
         \o ExtensionSuffix(extension, layer_index, num_layers, num_frames)


(***************************************************************************)
(* State of main().                                                        *)
(***************************************************************************)
VARIABLES
    pc,               \* position in main()
    exit_code,        \* "none" while running, then main()'s return value
    args,             \* DecompressArgs
    cmdline,          \* what the CommandLineParser reports
    filename_out,     \* std::string filename_out
    extension,        \* std::string extension
    codec,            \* jxl::extras::Codec codec
    decode_to_pixels, \* bool decode_to_pixels
    bytes,            \* size of std::vector<uint8_t> bytes (reconstructed JPEG)
    i,                \* counter of the repeat loop that is running
    stats,            \* number of SpeedStats::NotifyElapsed calls
    encoder,          \* encoder != nullptr
    encoded_image,    \* sizes of the bitstream groups Encode returned
    nlayers, nframes, \* bounds of the fan-out loops
    layer, frame,     \* counters i and j of the fan-out loops
    side,             \* which WriteOptionalOutput call of lines 627-631 is next
    buffers,          \* sizes of the byte vectors those calls are given
    log,              \* every call into the environment, in order
    fn_in,            \* SpecFilename: the arguments the loop passes to Filename
    fn_out,           \* SpecFilename: the paths the loop has produced
    accepted_formats, \* SpecFormats: std::vector<JxlPixelFormat> accepted_formats
    fmt_in            \* SpecFormats: what lines 536-572 read, and their position

mainVars == <<pc, exit_code, args, cmdline, filename_out, extension, codec,
              decode_to_pixels, bytes, i, stats, encoder, encoded_image,
              nlayers, nframes, layer, frame, side, buffers,
              log>>

fnVars == <<fn_in, fn_out>>

fmtVars == <<accepted_formats, fmt_in>>

vars == <<pc, exit_code, args, cmdline, filename_out, extension, codec,
          decode_to_pixels, bytes, i, stats, encoder, encoded_image,
          nlayers, nframes, layer, frame, side, buffers, log,
          fn_in, fn_out, accepted_formats, fmt_in>>

\* the member initialisers of DecompressArgs
DefaultArgs ==
    [ file_in |-> nullptr, file_out |-> nullptr, version |-> FALSE,
      num_reps |-> 1, disable_output |-> FALSE, num_threads |-> -1,
      pixels_to_jpeg |-> FALSE, coalescing |-> TRUE,
      output_extra_channels |-> FALSE, output_frames |-> FALSE,
      background_spec |-> "white", alpha_blend |-> FALSE,
      preview_out |-> "", icc_out |-> "", orig_icc_out |-> "",
      metadata_out |-> "", opt_jpeg_quality_id |-> -1,
      bits_per_sample |-> -1 ]

NoEncodedImage == [ bitstreams |-> 0, extra_channel_bitstreams |-> << >> ]

NoBuffers == [ preview_bitstream |-> 0, icc |-> 0, orig_icc |-> 0,
               metadata |-> 0 ]

\* one entry of the call log
Call(op, ok, what, n, l, f, path) ==
    [ op |-> op, ok |-> ok, what |-> what, n |-> n,
      layer |-> l, frame |-> f, path |-> path ]

InitMain ==
    /\ pc = "parse"
    /\ exit_code = "none"
    /\ args = DefaultArgs
    /\ cmdline = [ parsed |-> FALSE, help |-> FALSE,
                   jpeg_quality_matched |-> FALSE,
                   bits_per_sample_matched |-> FALSE ]
    /\ filename_out = ""
    /\ extension = ""
    /\ codec = "kUnknown"
    /\ decode_to_pixels = FALSE
    /\ bytes = 0
    /\ i = 0
    /\ stats = 0
    /\ encoder = FALSE
    /\ encoded_image = NoEncodedImage
    /\ nlayers = 0
    /\ nframes = 0
    /\ layer = 0
    /\ frame = 0
    /\ side = 1
    /\ buffers = NoBuffers
    /\ log = << >>

\* the format negotiation of SpecFormats has not been set up
NoFormats ==
    /\ accepted_formats = << >>
    /\ fmt_in = [ pc |-> "idle", filename_out |-> "", declared |-> << >>,
                  alpha_blend |-> FALSE, num_formats |-> 0, i |-> 0,
                  passed |-> << >> ]

\* the Filename loop of SpecFilename has not been set up
NoFilename ==
    /\ fn_in = [ filename |-> "", extension |-> "", num_layers |-> 0,
                 num_frames |-> 0, layer |-> 0, frame |-> 0 ]
    /\ fn_out = << >>

Init ==
    /\ InitMain
    /\ NoFilename
    /\ NoFormats

(***************************************************************************)
(* Helpers of the actions.                                                 *)
(***************************************************************************)
Append1(entry) == log' = Append(log, entry)

\* return EXIT_SUCCESS / EXIT_FAILURE, or the end of the process ("CRASH" in
\* undefined behaviour, "ABORT" in std::terminate)
Return(code) == /\ pc' = "done"
                /\ exit_code' = code

Calls(op) == { k \in 1..Len(log) : log[k].op = op }

Writes(what) == { k \in 1..Len(log) : log[k].op = "WriteFile" /\ log[k].what = what }

AllWrites == Calls("WriteFile")

(***************************************************************************)
(* main(), lines 421-445: Parse, --version, help, ValidateArgs.            *)
(***************************************************************************)
ValidateArgs(a) ==
    IF a.file_in = nullptr THEN FALSE
    ELSE IF a.num_threads < -1 THEN FALSE
    ELSE TRUE

\* the value main() returns before it reads the input, or "none"
EarlyReturn(parsed, help, a) ==
    IF ~parsed THEN "EXIT_FAILURE"
    ELSE IF a.version THEN "EXIT_SUCCESS"
    ELSE IF help \/ a.file_in = nullptr THEN "EXIT_SUCCESS"
    ELSE IF ~ValidateArgs(a) THEN "EXIT_FAILURE"
    ELSE "none"

ParseArgs ==
    /\ pc = "parse"
    /\ \E parsed \in BOOLEAN, help \in BOOLEAN, version \in BOOLEAN,
          file_in \in {nullptr, "in.jxl"}, num_threads \in {-2, -1} :
          LET a == [args EXCEPT !.version = version, !.file_in = file_in,
                                !.num_threads = num_threads]
              r == EarlyReturn(parsed, help, a)
          IN /\ args' = a
             /\ cmdline' = [cmdline EXCEPT !.parsed = parsed, !.help = help]
             /\ IF r = "none"
                THEN pc' = "read" /\ UNCHANGED exit_code
                ELSE Return(r)
    /\ UNCHANGED <<filename_out, extension, codec, decode_to_pixels, bytes, i,
                   stats, encoder, encoded_image, nlayers, nframes, layer,
                   frame, log, side, buffers, fn_in, fn_out, fmtVars>>

(***************************************************************************)
(* main(), lines 447-467: ReadFile and the check for an output target.     *)
(***************************************************************************)
HasOutputTarget(a) == ~(a.file_out = nullptr /\ ~a.disable_output)

ReadInput ==
    /\ pc = "read"
    /\ \E read_ok \in BOOLEAN, file_out \in {nullptr, "-", "out"},
          disable_output \in BOOLEAN :
          LET a == [args EXCEPT !.file_out = file_out,
                                !.disable_output = disable_output]
          IN /\ args' = a
             /\ Append1(Call("ReadFile", read_ok, "", 0, 0, 0, a.file_in))
             /\ IF ~read_ok THEN Return("EXIT_FAILURE")
                ELSE IF ~HasOutputTarget(a) THEN Return("EXIT_FAILURE")
                ELSE pc' = "select" /\ UNCHANGED exit_code
    /\ UNCHANGED <<cmdline, filename_out, extension, codec, decode_to_pixels,
                   bytes, i, stats, encoder, encoded_image, nlayers, nframes,
                   layer, frame, side, buffers, fn_in, fn_out, fmtVars>>

(***************************************************************************)
(* main(), lines 469-510: output name, codec, choice of the decode path.   *)
(***************************************************************************)
\* what CodecFromPath can report: the codec and the extension it stores
Targets == { <<"kJPG", ".jpg">>, <<"kPNM", ".ppm">>, <<"kPNG", ".png">>,
             <<"kUnknown", "">> }

\* --pixels_to_jpeg and --jpeg_quality exist only when GetJPEGEncoder() does
\* (lines 123-137); a command line that names an unregistered option fails
\* in Parse.
JpegOptions ==
    { o \in [ opt_jpeg_quality_id : {-1, 1}, pixels_to_jpeg : BOOLEAN,
              matched : BOOLEAN ] :
        o.opt_jpeg_quality_id < 0 => (~o.pixels_to_jpeg /\ ~o.matched) }

\* the combinations main() is run with for codec c: all of them for JPEG
\* output, where they decide the decode path, and for the other codecs the
\* command line without JPEG options and the one with both
JpegOptionsWith(c) ==
    IF c = "kJPG" THEN JpegOptions
    ELSE { o \in JpegOptions :
             /\ o.pixels_to_jpeg = (o.opt_jpeg_quality_id >= 0)
             /\ o.matched = (o.opt_jpeg_quality_id >= 0) }

\* a bug: --disable_output is ignored when OUTPUT is given
WritesOutput_IgnoresDisable(a) == a.file_out # nullptr

WritesOutput(a) == a.file_out # nullptr /\ ~a.disable_output

\* a bug: --jpeg_quality does not imply --pixels_to_jpeg
DecodeToPixels_IgnoresQuality(c, a, matched) ==
    IF a.opt_jpeg_quality_id >= 0 /\ a.pixels_to_jpeg
    THEN TRUE
    ELSE c # "kJPG"

DecodeToPixels(c, a, matched) ==
    IF a.opt_jpeg_quality_id >= 0 /\ (a.pixels_to_jpeg \/ matched)
    THEN TRUE
    ELSE c # "kJPG"

SelectPath ==
    /\ pc = "select"
    /\ \E t \in IF WritesOutput(args) THEN Targets ELSE {<<"kUnknown", "">>},
          num_reps \in 0..MaxReps :
       \E o \in JpegOptionsWith(t[1]) :
          LET a == [args EXCEPT !.opt_jpeg_quality_id = o.opt_jpeg_quality_id,
                                !.pixels_to_jpeg = o.pixels_to_jpeg,
                                !.num_reps = num_reps]
              c == IF WritesOutput(a) THEN t[1] ELSE "kUnknown"
              d == DecodeToPixels(c, a, o.matched)
          IN /\ args' = a
             /\ cmdline' = [cmdline EXCEPT !.jpeg_quality_matched = o.matched]
             /\ filename_out' = IF WritesOutput(a) THEN a.file_out ELSE ""
             /\ extension' = t[2]
             /\ codec' = c
             /\ decode_to_pixels' = d
             /\ pc' = IF d THEN "pixel_setup" ELSE "reconstruct"
    /\ i' = 0
    /\ UNCHANGED <<exit_code, bytes, stats, encoder, encoded_image, nlayers,
                   nframes, layer, frame, log, side, buffers, fn_in, fn_out, fmtVars>>

(***************************************************************************)
(* The decode engine as main() sees it.  DecodeImageJXL is not part of     *)
(* djxl_main.cc: a call succeeds or fails, and writes `produced` bytes     *)
(* into the caller's JPEG buffer.  A successful call leaves the            *)
(* reconstructed stream, which is never empty, in the buffer; a failing    *)
(* call may have written a part of it and discards nothing the buffer      *)
(* held.                                                                   *)
(***************************************************************************)
ReconstructOutcomes ==
    { o \in [ ok : BOOLEAN, produced : 0..MaxBytes ] :
        o.ok => o.produced > 0 }

JpegBytesAfter(buf, ok, produced) ==
    IF ok THEN produced ELSE buf + produced

\* a bug: the sample is recorded before the result is looked at
DecompressJxlReconstructJPEG_CountsFailures(buf, st, ok, produced) ==
    [ ok |-> ok, bytes |-> JpegBytesAfter(buf, ok, produced), stats |-> st + 1 ]

\* lines 353-375: the sample is recorded only after DecodeImageJXL succeeded
DecompressJxlReconstructJPEG(buf, st, ok, produced) ==
    IF ~ok
    THEN [ ok |-> FALSE, bytes |-> JpegBytesAfter(buf, ok, produced),
           stats |-> st ]
    ELSE [ ok |-> TRUE, bytes |-> JpegBytesAfter(buf, ok, produced),
           stats |-> st + 1 ]

\* a bug: the result of DecodeImageJXL is dropped
DecompressJxlToPackedPixelFile_IgnoresFailure(st, ok) ==
    [ ok |-> TRUE, stats |-> st + 1 ]

\* lines 377-411
DecompressJxlToPackedPixelFile(st, ok) ==
    IF ~ok
    THEN [ ok |-> FALSE, stats |-> st ]
    ELSE [ ok |-> TRUE, stats |-> st + 1 ]

(***************************************************************************)
(* main(), lines 510-534: the reconstruct path.                            *)
(***************************************************************************)
\* a bug: bytes.empty() is not consulted
OnReconstructFailure_AlwaysFallback(buf) == "fallback"

\* lines 515-524: what a failed reconstruct call leads to
OnReconstructFailure(buf) == IF buf = 0 THEN "fallback" ELSE "fatal"

ReconstructIteration ==
    /\ pc = "reconstruct"
    /\ i < args.num_reps
    /\ \E o \in ReconstructOutcomes :
          LET r == DecompressJxlReconstructJPEG(bytes, stats, o.ok, o.produced)
          IN /\ bytes' = r.bytes
             /\ stats' = r.stats
             /\ Append1(Call("Reconstruct", o.ok, "", r.bytes, 0, 0, ""))
             /\ IF r.ok
                THEN /\ i' = i + 1
                     /\ UNCHANGED <<pc, exit_code, decode_to_pixels>>
                ELSE IF OnReconstructFailure(r.bytes) = "fallback"
                THEN /\ decode_to_pixels' = TRUE
                     /\ pc' = "reconstructed"
                     /\ UNCHANGED <<i, exit_code>>
                ELSE /\ Return("EXIT_FAILURE")
                     /\ UNCHANGED <<i, decode_to_pixels>>
    /\ UNCHANGED <<args, cmdline, filename_out, extension, codec, encoder,
                   encoded_image, nlayers, nframes, layer, frame, side, buffers, fn_in,
                   fn_out, fmtVars>>

\* line 512: i < num_reps is false
ReconstructLoopEnd ==
    /\ pc = "reconstruct"
    /\ ~(i < args.num_reps)
    /\ pc' = "reconstructed"
    /\ UNCHANGED <<exit_code, args, cmdline, filename_out, extension, codec,
                   decode_to_pixels, bytes, i, stats, encoder, encoded_image,
                   nlayers, nframes, layer, frame, side, buffers, log,
          fn_in, fn_out, fmtVars>>

\* a bug: the fallback is announced and never taken
AfterReconstruct_NeverPixels(d) == "finish"

\* a bug: the pixel block runs whether or not reconstruction succeeded
AfterReconstruct_AlwaysPixels(d) == "pixel_setup"

\* line 535 (and 636 when the pixel path is not taken)
AfterReconstruct(d) == IF d THEN "pixel_setup" ELSE "finish"

\* lines 527-534
WriteReconstructed ==
    /\ pc = "reconstructed"
    /\ IF bytes # 0 /\ filename_out # ""
       THEN \E ok \in BOOLEAN :
               /\ Append1(Call("WriteFile", ok, "jpeg", bytes, 0, 0,
                               filename_out))
               /\ IF ok
                  THEN pc' = AfterReconstruct(decode_to_pixels)
                       /\ UNCHANGED exit_code
                  ELSE Return("EXIT_FAILURE")
       ELSE /\ pc' = AfterReconstruct(decode_to_pixels)
            /\ UNCHANGED <<exit_code, log>>
    /\ UNCHANGED <<args, cmdline, filename_out, extension, codec,
                   decode_to_pixels, bytes, i, stats, encoder, encoded_image,
                   nlayers, nframes, layer, frame, side, buffers, fn_in, fn_out, fmtVars>>

(***************************************************************************)
(* main(), lines 535-580: the pixel path up to the end of the repeat loop. *)
(***************************************************************************)
\* what Encoder::FromExtension can return: no encoder is known for ""
EncoderFound(ext) == IF ext = "" THEN {FALSE} ELSE BOOLEAN

PixelSetup ==
    /\ pc = "pixel_setup"
    /\ \E found \in EncoderFound(extension), alpha_blend \in BOOLEAN :
          IF filename_out # ""
          THEN /\ Append1(Call("FromExtension", found, "", 0, 0, 0, extension))
               /\ encoder' = found
               /\ IF found
                  THEN /\ args' = [args EXCEPT !.alpha_blend = alpha_blend]
                       /\ pc' = "pixel_decode"
                       /\ UNCHANGED exit_code
                  ELSE /\ Return("EXIT_FAILURE")
                       /\ UNCHANGED args
          ELSE /\ encoder' = FALSE
               /\ pc' = "pixel_decode"
               /\ UNCHANGED <<args, exit_code, log>>
    /\ i' = 0
    /\ UNCHANGED <<cmdline, filename_out, extension, codec, decode_to_pixels,
                   bytes, stats, encoded_image, nlayers, nframes, layer,
                   frame, side, buffers, fn_in, fn_out, fmtVars>>

\* lines 569-576
PixelIteration ==
    /\ pc = "pixel_decode"
    /\ i < args.num_reps
    /\ \E ok \in BOOLEAN :
          LET r == DecompressJxlToPackedPixelFile(stats, ok)
          IN /\ stats' = r.stats
             /\ Append1(Call("PixelDecode", ok, "", 0, 0, 0, ""))
             /\ IF r.ok
                THEN i' = i + 1 /\ UNCHANGED <<pc, exit_code>>
                ELSE Return("EXIT_FAILURE") /\ UNCHANGED i
    /\ UNCHANGED <<args, cmdline, filename_out, extension, codec,
                   decode_to_pixels, bytes, encoder, encoded_image, nlayers,
                   nframes, layer, frame, side, buffers, fn_in, fn_out, fmtVars>>

\* line 569: i < num_reps is false
PixelLoopEnd ==
    /\ pc = "pixel_decode"
    /\ ~(i < args.num_reps)
    /\ pc' = "decoded"
    /\ UNCHANGED <<exit_code, args, cmdline, filename_out, extension, codec,
                   decode_to_pixels, bytes, i, stats, encoder, encoded_image,
                   nlayers, nframes, layer, frame, side, buffers, log,
          fn_in, fn_out, fmtVars>>

(***************************************************************************)
(* main(), lines 583-612: alpha blending and encoding.                     *)
(***************************************************************************)
HexDigits == { "0", "1", "2", "3", "4", "5", "6", "7", "8", "9",
               "a", "b", "c", "d", "e", "f", "A", "B", "C", "D", "E", "F" }

RECURSIVE StoiThrows(_)
\* line 346: std::stoi(str, nullptr, 16) throws std::invalid_argument when
\* no digit follows the leading blanks and the sign; six hex digits never
\* leave the range of int
StoiThrows(str) ==
    IF Len(str) = 0 THEN TRUE
    ELSE IF SubSeq(str, 1, 1) = " " THEN StoiThrows(SubSeq(str, 2, Len(str)))
    ELSE LET t == IF SubSeq(str, 1, 1) \in { "+", "-" }
                  THEN SubSeq(str, 2, Len(str)) ELSE str
         IN Len(t) = 0 \/ SubSeq(t, 1, 1) \notin HexDigits

\* lines 343-346: the call does not return; nothing in main() catches the
\* exception, and the process is terminated
ParseBackgroundColorThrows(background_desc) ==
    /\ background_desc \notin { "black", "white" }
    /\ Len(background_desc) = 7
    /\ SubSeq(background_desc, 1, 1) = "#"
    /\ StoiThrows(SubSeq(background_desc, 2, 7))

\* a bug: a rejected background ends the run
BlendsAfterParse_OnlyIfParsed(parsed) == parsed

\* lines 586-590: AlphaBlend is called whatever ParseBackgroundColor returned
BlendsAfterParse(parsed) == TRUE

\* the values of --background the model gives
BackgroundSpecs == { "white", "red", "#zzzzzz" }

\* lines 333-351: the value returned, when the call returns
ParseBackgroundColor(background_desc) ==
    IF background_desc = "black" THEN TRUE
    ELSE IF background_desc = "white" THEN TRUE
    ELSE IF Len(background_desc) # 7 \/ SubSeq(background_desc, 1, 1) # "#"
    THEN FALSE
    ELSE TRUE

Sides == << "preview_out", "icc_out", "orig_icc_out", "metadata_out" >>

SideBuffer == << "preview_bitstream", "icc", "orig_icc", "metadata" >>

\* The destinations given on the command line and the sizes of the four
\* byte vectors, drawn together from a few cases.
SideCases ==
    { [ paths |-> [ k \in 1..4 |-> "" ], sizes |-> [ k \in 1..4 |-> 1 ] ],
      [ paths |-> [ k \in 1..4 |-> "side" ], sizes |-> [ k \in 1..4 |-> 1 ] ],
      [ paths |-> [ k \in 1..4 |-> IF k % 2 = 1 THEN "side" ELSE "" ],
        sizes |-> [ k \in 1..4 |-> IF k < 3 THEN 0 ELSE 1 ] ] }

\* lines 583-594.  Without an encoder the block of lines 583-634 is skipped
\* as a whole; the side outputs the command line asked for and the buffers
\* of the decoded image are recorded there, where nothing reads them.
AlphaBlendStep ==
    /\ pc = "decoded"
    /\ IF ~encoder
       THEN /\ pc' = "finish"
            /\ \E c \in SideCases :
                  /\ args' = [args EXCEPT !.preview_out = c.paths[1],
                                          !.icc_out = c.paths[2],
                                          !.orig_icc_out = c.paths[3],
                                          !.metadata_out = c.paths[4]]
                  /\ buffers' = [ preview_bitstream |-> 0,
                                  icc |-> c.sizes[2], orig_icc |-> c.sizes[3],
                                  metadata |-> 0 ]
            /\ UNCHANGED <<exit_code, log>>
       ELSE IF args.alpha_blend
       THEN \E background_spec \in BackgroundSpecs, ok \in BOOLEAN :
               /\ args' = [args EXCEPT !.background_spec = background_spec]
               /\ IF ParseBackgroundColorThrows(background_spec)
                  THEN /\ Return("ABORT")
                       /\ UNCHANGED log
                  ELSE IF ~BlendsAfterParse(
                              ParseBackgroundColor(background_spec))
                  THEN /\ Return("EXIT_FAILURE")
                       /\ UNCHANGED log
                  ELSE /\ log' = log
                               \o (IF ParseBackgroundColor(background_spec)
                                   THEN << >>
                                   ELSE << Call("fprintf", TRUE,
                                                "Invalid background color",
                                                0, 0, 0, "stderr") >>)
                               \o << Call("AlphaBlend", ok,
                                          IF ParseBackgroundColor(background_spec)
                                          THEN "background" ELSE "garbage",
                                          0, 0, 0, "") >>
                       /\ IF ok
                          THEN pc' = "encode" /\ UNCHANGED exit_code
                          ELSE Return("EXIT_FAILURE")
               /\ UNCHANGED buffers
       ELSE /\ pc' = "encode"
            /\ UNCHANGED <<exit_code, args, log, buffers>>
    /\ UNCHANGED <<cmdline, filename_out, extension, codec, decode_to_pixels,
                   bytes, i, stats, encoder, encoded_image, nlayers, nframes,
                   layer, frame, side, fn_in, fn_out, fmtVars>>

RECURSIVE SeqsUpTo(_, _)
\* the sequences over S of length at most n
SeqsUpTo(S, n) ==
    IF n = 0 THEN { << >> }
    ELSE LET shorter == SeqsUpTo(S, n - 1)
         IN shorter \cup { Append(q, x) : q \in shorter, x \in S }

\* what Encode can return: the number of bitstreams of the primary group and
\* of each extra-channel group, which holds as many as the primary group or
\* one fewer
EncodedImages ==
    { e \in [ bitstreams : 0..MaxFrames,
              extra_channel_bitstreams : SeqsUpTo(0..MaxFrames, MaxExtra) ] :
        \A g \in 1..Len(e.extra_channel_bitstreams) :
            e.extra_channel_bitstreams[g] \in
                { e.bitstreams, e.bitstreams - 1 } }

\* lines 607-609
NumLayers(a, e) ==
    IF a.output_extra_channels THEN 1 + Len(e.extra_channel_bitstreams) ELSE 1

\* a bug: one output per repetition
NumFrames_PerRepetition(a, e) ==
    IF a.output_frames \/ ~a.coalescing THEN e.bitstreams ELSE a.num_reps

\* lines 610-612
NumFrames(a, e) ==
    IF a.output_frames \/ ~a.coalescing THEN e.bitstreams ELSE 1

\* a bug: the result of Encode is not consulted
EncodeStep_IgnoresFailure ==
    /\ pc = "encode"
    /\ \E ok \in BOOLEAN, e \in EncodedImages, oec \in BOOLEAN,
          of \in BOOLEAN, coalescing \in BOOLEAN :
          LET a == [args EXCEPT !.output_extra_channels = oec,
                                !.output_frames = of,
                                !.coalescing = coalescing]
          IN /\ Append1(Call("Encode", ok, "", 0, 0, 0, ""))
             /\ args' = a
             /\ encoded_image' = e
             /\ nlayers' = NumLayers(a, e)
             /\ nframes' = NumFrames(a, e)
             /\ pc' = "fanout"
             /\ UNCHANGED exit_code
    /\ layer' = 0
    /\ frame' = 0
    /\ UNCHANGED <<cmdline, filename_out, extension, codec, decode_to_pixels,
                   bytes, i, stats, encoder, side, buffers, fn_in, fn_out, fmtVars>>

\* lines 595-612
EncodeStep ==
    /\ pc = "encode"
    /\ \E ok \in BOOLEAN, e \in EncodedImages, oec \in BOOLEAN,
          of \in BOOLEAN, coalescing \in BOOLEAN :
          LET a == [args EXCEPT !.output_extra_channels = oec,
                                !.output_frames = of,
                                !.coalescing = coalescing]
          IN /\ Append1(Call("Encode", ok, "", 0, 0, 0, ""))
             /\ IF ok
                THEN /\ args' = a
                     /\ encoded_image' = e
                     /\ nlayers' = NumLayers(a, e)
                     /\ nframes' = NumFrames(a, e)
                     /\ pc' = "fanout"
                     /\ UNCHANGED exit_code
                ELSE /\ Return("EXIT_FAILURE")
                     /\ UNCHANGED <<args, encoded_image, nlayers, nframes>>
    /\ layer' = 0
    /\ frame' = 0
    /\ UNCHANGED <<cmdline, filename_out, extension, codec, decode_to_pixels,
                   bytes, i, stats, encoder, side, buffers, fn_in, fn_out, fmtVars>>

(***************************************************************************)
(* main(), lines 613-626: one file per (layer, frame).                     *)
(***************************************************************************)
\* lines 615-617: whether the bitstream the loop selects exists
InBounds(e, l, f) ==
    IF l = 0 THEN f < e.bitstreams
    ELSE /\ l - 1 < Len(e.extra_channel_bitstreams)
         /\ f < e.extra_channel_bitstreams[l]

\* a bug: the result of WriteFile is not looked at
FanoutIteration_IgnoresWriteFailure ==
    /\ pc = "fanout"
    /\ layer < nlayers /\ frame < nframes
    /\ \E ok \in BOOLEAN :
          Append1(Call("WriteFile", ok, "main", 1, layer, frame,
                       Filename(filename_out, extension, layer, frame,
                                nlayers, nframes)))
    /\ frame' = IF frame + 1 < nframes THEN frame + 1 ELSE 0
    /\ layer' = IF frame + 1 < nframes THEN layer ELSE layer + 1
    /\ UNCHANGED <<pc, exit_code, args, cmdline, filename_out, extension,
                   codec, decode_to_pixels, bytes, i, stats, encoder,
                   encoded_image, nlayers, nframes, side, buffers, fn_in,
                   fn_out, fmtVars>>

\* An access past the end of a vector is undefined: the process may die
\* there, or go on with whatever the reference denotes (n = -1 in the log).
FanoutIteration ==
    /\ pc = "fanout"
    /\ layer < nlayers /\ frame < nframes
    /\ LET inb == InBounds(encoded_image, layer, frame)
           fn == Filename(filename_out, extension, layer, frame, nlayers,
                          nframes)
       IN \E ok \in BOOLEAN, dies \in BOOLEAN :
             IF ~inb /\ dies
             THEN /\ Return("CRASH")
                  /\ UNCHANGED <<layer, frame, log>>
             ELSE /\ Append1(Call("WriteFile", ok, "main",
                                  IF inb THEN 1 ELSE -1, layer, frame, fn))
                  /\ IF ok
                     THEN /\ frame' = IF frame + 1 < nframes
                                      THEN frame + 1 ELSE 0
                          /\ layer' = IF frame + 1 < nframes
                                      THEN layer ELSE layer + 1
                          /\ UNCHANGED <<pc, exit_code>>
                     ELSE /\ Return("EXIT_FAILURE")
                          /\ UNCHANGED <<layer, frame>>
    /\ UNCHANGED <<args, cmdline, filename_out, extension, codec,
                   decode_to_pixels, bytes, i, stats, encoder, encoded_image,
                   nlayers, nframes, side, buffers, fn_in, fn_out, fmtVars>>

(***************************************************************************)
(* main(), lines 627-633: the optional outputs.                            *)
(***************************************************************************)
\* lines 613-614: the loop conditions are false
FanoutEnd ==
    /\ pc = "fanout"
    /\ ~(layer < nlayers /\ frame < nframes)
    /\ \E c \in SideCases :
          /\ args' = [args EXCEPT !.preview_out = c.paths[1],
                                  !.icc_out = c.paths[2],
                                  !.orig_icc_out = c.paths[3],
                                  !.metadata_out = c.paths[4]]
          /\ buffers' = [ preview_bitstream |-> c.sizes[1], icc |-> c.sizes[2],
                          orig_icc |-> c.sizes[3], metadata |-> c.sizes[4] ]
    /\ side' = 1
    /\ pc' = "side"
    /\ UNCHANGED <<exit_code, cmdline, filename_out, extension, codec,
                   decode_to_pixels, bytes, i, stats, encoder, encoded_image,
                   nlayers, nframes, layer, frame, log, fn_in, fn_out, fmtVars>>

\* a bug: an empty buffer is written as an empty file
WritesOptional_IgnoresEmptyBuffer(filename, size) == filename # ""

\* lines 278-284: whether WriteOptionalOutput calls WriteFile
WritesOptional(filename, size) == ~(filename = "" \/ size = 0)

\* one operand of the || chain of lines 627-631
WriteOptionalOutput ==
    /\ pc = "side"
    /\ side <= 4
    /\ LET filename == args[Sides[side]]
           size == buffers[SideBuffer[side]]
       IN IF WritesOptional(filename, size)
          THEN \E ok \in BOOLEAN :
                  /\ Append1(Call("WriteFile", ok, Sides[side], size, 0, 0,
                                  filename))
                  /\ IF ok
                     THEN side' = side + 1 /\ UNCHANGED <<pc, exit_code>>
                     ELSE Return("EXIT_FAILURE") /\ UNCHANGED side
          ELSE /\ side' = side + 1
               /\ UNCHANGED <<pc, exit_code, log>>
    /\ UNCHANGED <<args, cmdline, filename_out, extension, codec,
                   decode_to_pixels, bytes, i, stats, encoder, encoded_image,
                   nlayers, nframes, layer, frame, buffers, fn_in, fn_out, fmtVars>>

\* line 634: all four calls returned true
SideOutputsEnd ==
    /\ pc = "side"
    /\ side > 4
    /\ pc' = "finish"
    /\ UNCHANGED <<exit_code, args, cmdline, filename_out, extension, codec,
                   decode_to_pixels, bytes, i, stats, encoder, encoded_image,
                   nlayers, nframes, layer, frame, side, buffers, log, fn_in,
                   fn_out, fmtVars>>

\* lines 636-640
Finish ==
    /\ pc = "finish"
    /\ Return("EXIT_SUCCESS")
    /\ UNCHANGED <<args, cmdline, filename_out, extension, codec,
                   decode_to_pixels, bytes, i, stats, encoder, encoded_image,
                   nlayers, nframes, layer, frame, side, buffers, log, fn_in,
                   fn_out, fmtVars>>

Next ==
    \/ ParseArgs
    \/ ReadInput
    \/ SelectPath
    \/ ReconstructIteration
    \/ ReconstructLoopEnd
    \/ WriteReconstructed
    \/ PixelSetup
    \/ PixelIteration
    \/ PixelLoopEnd
    \/ AlphaBlendStep
    \/ EncodeStep
    \/ FanoutIteration
    \/ FanoutEnd
    \/ WriteOptionalOutput
    \/ SideOutputsEnd
    \/ Finish

Spec == Init /\ [][Next]_vars

(***************************************************************************)
(* SpecFilename: the loop of lines 613-626 with Filename alone.  The       *)
(* initial state holds the output name, the extension and the two loop     *)
(* bounds; each step derives the path of one (layer, frame).               *)
(***************************************************************************)
FilenameNames == { "-", "out", "out.ppm" }

FilenameExtensions == { "", ".ppm", ".png" }

InitFilename ==
    /\ InitMain
    /\ \E f \in FilenameNames, e \in FilenameExtensions,
          nl \in 1..MaxNumLayers, nf \in 1..MaxNumFrames :
          fn_in = [ filename |-> f, extension |-> e, num_layers |-> nl,
                    num_frames |-> nf, layer |-> 0, frame |-> 0 ]
    /\ fn_out = << >>
    /\ NoFormats

FilenameLoopStep ==
    /\ fn_in.layer < fn_in.num_layers
    /\ fn_in.frame < fn_in.num_frames
    /\ fn_out' = Append(fn_out,
                        [ layer |-> fn_in.layer, frame |-> fn_in.frame,
                          path |-> Filename(fn_in.filename, fn_in.extension,
                                            fn_in.layer, fn_in.frame,
                                            fn_in.num_layers,
                                            fn_in.num_frames) ])
    /\ fn_in' = IF fn_in.frame + 1 < fn_in.num_frames
                THEN [fn_in EXCEPT !.frame = fn_in.frame + 1]
                ELSE [fn_in EXCEPT !.frame = 0, !.layer = fn_in.layer + 1]
    /\ UNCHANGED <<mainVars, fmtVars>>

NextFilename == FilenameLoopStep

SpecFilename == InitFilename /\ [][NextFilename]_vars

(***************************************************************************)
(* SpecFormats: lines 536-572 of main() with AddFormatsWithAlphaChannel,   *)
(* the construction of the accepted-format list and its hand-over to the   *)
(* pixel decode.  The initial state holds what the block reads: whether    *)
(* there is an output file, the list the encoder declares and the          *)
(* --alpha_blend flag.                                                     *)
(***************************************************************************)
JxlPixelFormat(num_channels, data_type, endianness, align) ==
    [ num_channels |-> num_channels, data_type |-> data_type,
      endianness |-> endianness, align |-> align ]

\* the sample layouts the encoders of the model declare; any two of them
\* differ in the data type, the endianness or the alignment
Layouts ==
    { <<"JXL_TYPE_UINT8", "JXL_LITTLE_ENDIAN", 0>>,
      <<"JXL_TYPE_FLOAT", "JXL_LITTLE_ENDIAN", 0>>,
      <<"JXL_TYPE_UINT8", "JXL_BIG_ENDIAN", 0>>,
      <<"JXL_TYPE_UINT8", "JXL_LITTLE_ENDIAN", 4>> }

DeclarableFormats ==
    { JxlPixelFormat(c, l[1], l[2], l[3]) : c \in 1..4, l \in Layouts }

\* Encoder::AcceptedFormats() is not part of djxl_main.cc: an encoder
\* declares an ordered list of at least one format, without repetitions.
AcceptedFormats ==
    { q \in SeqsUpTo(DeclarableFormats, MaxFormats) :
        /\ Len(q) > 0
        /\ \A a, b \in 1..Len(q) : a # b => q[a] # q[b] }

\* a bug: the alignment is not compared
SameFormat_IgnoresAlign(f, format) ==
    /\ f.num_channels = format.num_channels
    /\ f.data_type = format.data_type
    /\ f.endianness = format.endianness

\* lines 315-317
SameFormat(f, format) ==
    /\ f.num_channels = format.num_channels
    /\ f.data_type = format.data_type
    /\ f.endianness = format.endianness
    /\ f.align = format.align

\* a bug: the variant is pushed without looking for it in the list
add_format_AlwaysPushes(formats, format) == Append(formats, format)

\* lines 312-322: the lambda add_format
add_format(formats, format) ==
    IF \E k \in 1..Len(formats) : SameFormat(formats[k], format)
    THEN formats
    ELSE Append(formats, format)

\* line 326
GainsAlpha(format) == format.num_channels = 1 \/ format.num_channels = 3

\* a bug: one endianness only
FloatFormats_LittleEndianOnly ==
    [ k \in 1..4 |->
        JxlPixelFormat(k, "JXL_TYPE_FLOAT", "JXL_LITTLE_ENDIAN", 0) ]

\* lines 560-565: the order in which the two loops push the float formats
FloatFormats ==
    [ k \in 1..8 |->
        JxlPixelFormat((k + 1) \div 2, "JXL_TYPE_FLOAT",
                       IF k % 2 = 1 THEN "JXL_BIG_ENDIAN"
                       ELSE "JXL_LITTLE_ENDIAN",
                       0) ]

InitFormats ==
    /\ InitMain
    /\ NoFilename
    /\ accepted_formats = << >>
    /\ \E out \in {"", "out"}, alpha_blend \in BOOLEAN :
       \E declared \in IF out = "" THEN { << >> } ELSE AcceptedFormats :
          fmt_in = [ pc |-> "start", filename_out |-> out,
                     declared |-> declared, alpha_blend |-> alpha_blend,
                     num_formats |-> 0, i |-> 0, passed |-> << >> ]

\* lines 539-557, without the call of AddFormatsWithAlphaChannel
EncoderFormats ==
    /\ fmt_in.pc = "start"
    /\ fmt_in.filename_out # ""
    /\ accepted_formats' = fmt_in.declared
    /\ fmt_in' = IF fmt_in.alpha_blend
                 THEN [fmt_in EXCEPT !.pc = "add",
                                     !.num_formats = Len(fmt_in.declared),
                                     !.i = 0]
                 ELSE [fmt_in EXCEPT !.pc = "decode"]
    /\ UNCHANGED <<mainVars, fnVars>>

\* lines 324-330: one iteration of the loop of AddFormatsWithAlphaChannel
AddFormatsIteration ==
    /\ fmt_in.pc = "add"
    /\ fmt_in.i < fmt_in.num_formats
    /\ LET format == accepted_formats[fmt_in.i + 1]
       IN accepted_formats' =
             IF GainsAlpha(format)
             THEN add_format(accepted_formats,
                             [format EXCEPT !.num_channels = @ + 1])
             ELSE accepted_formats
    /\ fmt_in' = [fmt_in EXCEPT !.i = @ + 1]
    /\ UNCHANGED <<mainVars, fnVars>>

\* line 324: i < num_formats is false
AddFormatsEnd ==
    /\ fmt_in.pc = "add"
    /\ ~(fmt_in.i < fmt_in.num_formats)
    /\ fmt_in' = [fmt_in EXCEPT !.pc = "decode"]
    /\ UNCHANGED <<mainVars, fnVars, accepted_formats>>

\* lines 558-566
PixelOnlyFormats ==
    /\ fmt_in.pc = "start"
    /\ fmt_in.filename_out = ""
    /\ accepted_formats' = accepted_formats \o FloatFormats
    /\ fmt_in' = [fmt_in EXCEPT !.pc = "decode"]
    /\ UNCHANGED <<mainVars, fnVars>>

\* lines 570-572 and 385: the list is handed to the decode engine
PassFormats ==
    /\ fmt_in.pc = "decode"
    /\ fmt_in' = [fmt_in EXCEPT !.pc = "called", !.passed = accepted_formats]
    /\ UNCHANGED <<mainVars, fnVars, accepted_formats>>

NextFormats ==
    \/ EncoderFormats
    \/ AddFormatsIteration
    \/ AddFormatsEnd
    \/ PixelOnlyFormats
    \/ PassFormats

SpecFormats == InitFormats /\ [][NextFormats]_vars

(***************************************************************************)
(* SpecBitDepth: the way of --bits_per_sample from the command line to the *)
(* pixel decode, lines 469-489, 502-507, 569-576 and 394-399.  The initial *)
(* state is main() at line 469, after the input was read: the options are  *)
(* parsed and an output target or --disable_output is present.             *)
(***************************************************************************)
\* the values of --bits_per_sample the model gives
BitsPerSampleValues == { -1, 0, 8 }

\* what CodecFromPath can report, with the float variant of PNM
BitDepthTargets ==
    Targets \cup { <<"kPNM", ".pfm">> }

\* lines 485-489: the value of args.bits_per_sample after them; whether
\* --bits_per_sample was given (opt_bits_per_sample_id) is not consulted
PnmBitsPerSample(c, ext, a, jpeg_quality_matched) ==
    IF c = "kPNM" /\ ext # ".pfm"
       /\ (a.opt_jpeg_quality_id < 0 \/ ~jpeg_quality_matched)
    THEN 0
    ELSE a.bits_per_sample

\* lines 394-399: dparams.output_bitdepth, "default" when it is not assigned
OutputBitdepth(bits_per_sample) ==
    IF bits_per_sample = 0
    THEN [ type |-> "JXL_BIT_DEPTH_FROM_CODESTREAM", bits_per_sample |-> 0 ]
    ELSE IF bits_per_sample > 0
    THEN [ type |-> "JXL_BIT_DEPTH_CUSTOM", bits_per_sample |-> bits_per_sample ]
    ELSE [ type |-> "default", bits_per_sample |-> 0 ]

InitBitDepth ==
    /\ NoFilename
    /\ NoFormats
    /\ pc = "output"
    /\ exit_code = "none"
    /\ \E file_out \in {nullptr, "out"}, disable_output \in BOOLEAN,
          o \in JpegOptions, given \in BOOLEAN,
          value \in BitsPerSampleValues, num_reps \in 1..MaxReps :
          /\ ~given => value = DefaultArgs.bits_per_sample
          /\ args = [DefaultArgs EXCEPT
                        !.file_in = "in.jxl",
                        !.file_out = file_out,
                        !.disable_output = disable_output,
                        !.opt_jpeg_quality_id = o.opt_jpeg_quality_id,
                        !.pixels_to_jpeg = o.pixels_to_jpeg,
                        !.num_reps = num_reps,
                        !.bits_per_sample = value]
          /\ HasOutputTarget(args)
          /\ cmdline = [ parsed |-> TRUE, help |-> FALSE,
                         jpeg_quality_matched |-> o.matched,
                         bits_per_sample_matched |-> given ]
          /\ log = IF given
                   THEN << Call("ParseSigned", TRUE, "bits_per_sample", value,
                                0, 0, "") >>
                   ELSE << >>
    /\ filename_out = ""
    /\ extension = ""
    /\ codec = "kUnknown"
    /\ decode_to_pixels = FALSE
    /\ bytes = 0
    /\ i = 0
    /\ stats = 0
    /\ encoder = FALSE
    /\ encoded_image = NoEncodedImage
    /\ nlayers = 0
    /\ nframes = 0
    /\ layer = 0
    /\ frame = 0
    /\ side = 1
    /\ buffers = NoBuffers

\* lines 469-507
BitDepthOutput ==
    /\ pc = "output"
    /\ \E t \in IF WritesOutput(args) THEN BitDepthTargets
                 ELSE {<<"kUnknown", "">>} :
          LET d == DecodeToPixels(t[1], args, cmdline.jpeg_quality_matched)
          IN /\ filename_out' = IF WritesOutput(args) THEN args.file_out
                                ELSE ""
             /\ codec' = t[1]
             /\ extension' = t[2]
             /\ args' = [args EXCEPT !.bits_per_sample =
                            PnmBitsPerSample(t[1], t[2], args,
                                             cmdline.jpeg_quality_matched)]
             /\ decode_to_pixels' = d
             /\ pc' = IF d THEN "bit_depth_decode" ELSE "bit_depth_reconstruct"
    /\ UNCHANGED <<exit_code, cmdline, bytes, i, stats, encoder, encoded_image,
                   nlayers, nframes, layer, frame, side, buffers, log,
                   fnVars, fmtVars>>

\* lines 510-534 as far as they matter here: the reconstruction either
\* delivers the JPEG, and no pixel is decoded, or falls back to the pixel
\* decode
BitDepthReconstruct ==
    /\ pc = "bit_depth_reconstruct"
    /\ \E ok \in BOOLEAN :
          /\ Append1(Call("Reconstruct", ok, "", IF ok THEN 1 ELSE 0, 0, 0, ""))
          /\ decode_to_pixels' = ~ok
          /\ IF ok
             THEN Return("EXIT_SUCCESS")
             ELSE pc' = "bit_depth_decode" /\ UNCHANGED exit_code
    /\ UNCHANGED <<args, cmdline, filename_out, extension, codec, bytes, i,
                   stats, encoder, encoded_image, nlayers, nframes, layer,
                   frame, side, buffers, fnVars, fmtVars>>

\* lines 569-576 with lines 394-399: one pixel decode and what it requests
BitDepthDecode ==
    /\ pc = "bit_depth_decode"
    /\ i < args.num_reps
    /\ \E ok \in BOOLEAN :
          LET b == OutputBitdepth(args.bits_per_sample)
          IN /\ Append1(Call("PixelDecode", ok, b.type, b.bits_per_sample,
                             0, 0, ""))
             /\ IF ok
                THEN i' = i + 1 /\ UNCHANGED <<pc, exit_code>>
                ELSE Return("EXIT_FAILURE") /\ UNCHANGED i
    /\ UNCHANGED <<args, cmdline, filename_out, extension, codec,
                   decode_to_pixels, bytes, stats, encoder, encoded_image,
                   nlayers, nframes, layer, frame, side, buffers, fnVars,
                   fmtVars>>

\* line 569: i < num_reps is false; what follows does not decode
BitDepthLoopEnd ==
    /\ pc = "bit_depth_decode"
    /\ ~(i < args.num_reps)
    /\ Return("EXIT_SUCCESS")
    /\ UNCHANGED <<args, cmdline, filename_out, extension, codec,
                   decode_to_pixels, bytes, i, stats, encoder, encoded_image,
                   nlayers, nframes, layer, frame, side, buffers, log,
                   fnVars, fmtVars>>

NextBitDepth ==
    \/ BitDepthOutput
    \/ BitDepthReconstruct
    \/ BitDepthDecode
    \/ BitDepthLoopEnd

SpecBitDepth == InitBitDepth /\ [][NextBitDepth]_vars

(***************************************************************************)
(* Properties of Filename, checked under SpecFilename.                     *)
(***************************************************************************)
\* the path most recently derived, and the ones before it
LastPath == fn_out[Len(fn_out)]

EarlierPaths == { fn_out[k].path : k \in 1..(Len(fn_out) - 1) }

\* the number of decimal digits of n, stated without the logarithm
DecimalWidth(n) == CHOOSE w \in 1..6 : 10 ^ (w - 1) <= n /\ n < 10 ^ w

DigitValue(c) ==
    CASE c = "0" -> 0 [] c = "1" -> 1 [] c = "2" -> 2 [] c = "3" -> 3
      [] c = "4" -> 4 [] c = "5" -> 5 [] c = "6" -> 6 [] c = "7" -> 7
      [] c = "8" -> 8 [] c = "9" -> 9 [] OTHER -> -1

IsDigits(str) ==
    \A k \in 1..Len(str) : DigitValue(SubSeq(str, k, k)) >= 0

RECURSIVE DecimalValue(_)
DecimalValue(str) ==
    IF Len(str) = 0 THEN 0
    ELSE 10 * DecimalValue(SubSeq(str, 1, Len(str) - 1))
         + DigitValue(SubSeq(str, Len(str), Len(str)))

\* str is `prefix` followed by exactly `width` decimal digits that read `value`
IsPaddedIndex(str, prefix, width, value) ==
    /\ Len(str) = Len(prefix) + width
    /\ SubSeq(str, 1, Len(prefix)) = prefix
    /\ IsDigits(SubSeq(str, Len(prefix) + 1, Len(str)))
    /\ DecimalValue(SubSeq(str, Len(prefix) + 1, Len(str))) = value

\* C8 as stated: for any base path, the paths of distinct (layer, frame)
\* pairs of the grid are pairwise distinct.  Every prefix of the loop is a
\* state, so it is enough that the newest path differs from all earlier ones.
C8_DistinctForAnyBase ==
    Len(fn_out) > 0 => LastPath.path \notin EarlierPaths

\* C8 amended: for any base path other than the stdout marker "-", the paths
\* of distinct (layer, frame) pairs of the grid are pairwise distinct.
C8_DistinctUnlessStdout ==
    (Len(fn_out) > 0 /\ fn_in.filename # "-")
        => LastPath.path \notin EarlierPaths

\* a grid with several layers and more than nine frames has been walked to
\* its last cell for a file name
C8_Witness ==
    /\ fn_in.filename = "out"
    /\ fn_in.num_layers = 3
    /\ fn_in.num_frames = 11
    /\ Len(fn_out) = 33

\* C9: for a base path other than "-", the path is the base, then "-" and the
\* frame index zero-padded to exactly the decimal width of num_frames iff
\* num_frames > 1, then "-ec" and the layer index zero-padded to exactly the
\* decimal width of num_layers iff num_layers > 1 and layer > 0, then the
\* extension part; the index is never truncated.  12 frames, frame 3 gives
\* "out-03.png"; 5 layers, layer 2 gives "out-ec2.png".
C9_SuffixFormat ==
    (Len(fn_out) > 0 /\ fn_in.filename # "-") =>
        LET p == LastPath.path
            base == fn_in.filename
            hasFrame == fn_in.num_frames > 1
            hasLayer == fn_in.num_layers > 1 /\ LastPath.layer > 0
            a == Len(base)
            b == IF hasFrame THEN a + 1 + DecimalWidth(fn_in.num_frames)
                 ELSE a
            c == IF hasLayer THEN b + 3 + DecimalWidth(fn_in.num_layers)
                 ELSE b
        IN /\ Len(p) >= c
           /\ SubSeq(p, 1, a) = base
           /\ hasFrame => IsPaddedIndex(SubSeq(p, a + 1, b), "-",
                                        DecimalWidth(fn_in.num_frames),
                                        LastPath.frame)
           /\ hasLayer => IsPaddedIndex(SubSeq(p, b + 1, c), "-ec",
                                        DecimalWidth(fn_in.num_layers),
                                        LastPath.layer)
           /\ SubSeq(p, c + 1, Len(p)) \in { "", fn_in.extension, ".pgm" }
           /\ ( /\ base = "out" /\ fn_in.extension = ".png"
                /\ fn_in.num_frames = 12 /\ fn_in.num_layers = 1
                /\ LastPath.frame = 3 ) => p = "out-03.png"
           /\ ( /\ base = "out" /\ fn_in.extension = ".png"
                /\ fn_in.num_frames = 1 /\ fn_in.num_layers = 5
                /\ LastPath.layer = 2 ) => p = "out-ec2.png"

\* frame 3 of 12 and layer 10 of 11 have been derived
C9_Witness ==
    /\ Len(fn_out) > 0
    /\ fn_in.filename = "out"
    /\ fn_in.num_frames = 12
    /\ fn_in.num_layers = 11
    /\ LastPath.frame = 3
    /\ LastPath.layer = 10
    /\ LastPath.path = "out-03-ec10.png"

\* C10: the result is the base path itself whenever the base path is "-" and
\* whenever num_frames = 1 and num_layers = 1.
C10_BaseUnchanged ==
    \A k \in 1..Len(fn_out) :
        (fn_in.filename = "-" \/ (fn_in.num_frames = 1 /\ fn_in.num_layers = 1))
            => fn_out[k].path = fn_in.filename

\* "-" has been derived for an extra channel of a later frame
C10_Witness ==
    /\ Len(fn_out) > 0
    /\ fn_in.filename = "-"
    /\ fn_in.extension = ".ppm"
    /\ LastPath.layer = 1
    /\ LastPath.frame = 1
    /\ LastPath.path = "-"

\* what follows the base path and the two index suffixes in the newest path
ExtensionPart ==
    LET a == Len(fn_in.filename)
        b == IF fn_in.num_frames > 1
             THEN a + 1 + DecimalWidth(fn_in.num_frames) ELSE a
        c == IF fn_in.num_layers > 1 /\ LastPath.layer > 0
             THEN b + 3 + DecimalWidth(fn_in.num_layers) ELSE b
    IN SubSeq(LastPath.path, c + 1, Len(LastPath.path))

\* C11: for a base path that is a file name (the stdout marker returns before
\* the rule), when the extension is ".ppm" and the layer index is > 0 the
\* path ends with ".pgm" and not with ".ppm"; otherwise the extension is
\* appended iff a frame suffix or an extra-channel suffix was added, and a
\* path that received no suffix is the base path with no extension.
C11_ExtensionRule ==
    (Len(fn_out) > 0 /\ fn_in.filename # "-") =>
        LET suffixed == \/ fn_in.num_frames > 1
                        \/ (fn_in.num_layers > 1 /\ LastPath.layer > 0)
        IN IF fn_in.extension = ".ppm" /\ LastPath.layer > 0
           THEN ExtensionPart = ".pgm"
           ELSE IF suffixed
           THEN ExtensionPart = fn_in.extension
           ELSE /\ ExtensionPart = ""
                /\ LastPath.path = fn_in.filename

\* the first extra channel of a single-frame PPM output has been derived
C11_Witness ==
    /\ Len(fn_out) > 0
    /\ fn_in.filename = "out"
    /\ fn_in.extension = ".ppm"
    /\ fn_in.num_frames = 1
    /\ LastPath.layer = 1
    /\ LastPath.path = "out-ec1.pgm"

(***************************************************************************)
(* Properties of the accepted-format list, checked under SpecFormats.      *)
(***************************************************************************)
\* equal in channel count, sample type, endianness and alignment
StructurallyIdentical(f, g) ==
    /\ f.num_channels = g.num_channels
    /\ f.data_type = g.data_type
    /\ f.endianness = g.endianness
    /\ f.align = g.align

\* the format with one more channel and the same sample layout
AlphaVariant(f) == [f EXCEPT !.num_channels = @ + 1]

\* the positions of `formats` that hold a format identical to f
Occurrences(formats, f) ==
    { m \in 1..Len(formats) : StructurallyIdentical(formats[m], f) }

FormatsPassed == fmt_in.pc = "called"

\* C12: the list handed to the decode engine never holds two entries equal
\* in all of (channel count, sample type, endianness, alignment): for every
\* list an encoder declares, with and without --alpha_blend, and for the
\* pixel-only case.
C12_NoDuplicateFormats ==
    FormatsPassed =>
        \A a, b \in 1..Len(fmt_in.passed) :
            a # b => ~StructurallyIdentical(fmt_in.passed[a], fmt_in.passed[b])

\* with --alpha_blend, a 1-channel entry gained its variant while the variant
\* of a 3-channel entry was already declared
C12_Witness ==
    /\ FormatsPassed
    /\ fmt_in.alpha_blend
    /\ Len(fmt_in.declared) = 3
    /\ Len(fmt_in.passed) = 4
    /\ \E k \in 1..3 :
          /\ fmt_in.declared[k].num_channels = 3
          /\ Occurrences(fmt_in.declared, AlphaVariant(fmt_in.declared[k])) # {}

\* C13: with --alpha_blend the encoder's formats stay as a prefix in their
\* order; for every declared entry with 1 or 3 channels the list holds
\* exactly one entry with one more channel and the same sample type,
\* endianness and alignment; every entry after the prefix is such a variant,
\* so entries with 2 or 4 channels add nothing.  Without --alpha_blend the
\* list is the declared one.
C13_AlphaVariants ==
    (FormatsPassed /\ fmt_in.filename_out # "") =>
        LET d == fmt_in.declared
            r == fmt_in.passed
        IN IF fmt_in.alpha_blend
           THEN /\ Len(r) >= Len(d)
                /\ SubSeq(r, 1, Len(d)) = d
                /\ \A k \in 1..Len(d) :
                      d[k].num_channels \in {1, 3} =>
                         Cardinality(Occurrences(r, AlphaVariant(d[k]))) = 1
                /\ \A m \in (Len(d) + 1)..Len(r) :
                      \E k \in 1..Len(d) :
                         /\ d[k].num_channels \in {1, 3}
                         /\ StructurallyIdentical(r[m], AlphaVariant(d[k]))
           ELSE r = d

\* a 3-channel entry gained its variant although the declared list holds a
\* 4-channel entry that differs from the variant in the alignment only
C13_Witness ==
    /\ FormatsPassed
    /\ fmt_in.alpha_blend
    /\ Len(fmt_in.declared) = 2
    /\ Len(fmt_in.passed) = 3
    /\ fmt_in.declared[1].num_channels = 3
    /\ fmt_in.declared[2].num_channels = 4
    /\ fmt_in.declared[1].align # fmt_in.declared[2].align
    /\ fmt_in.declared[1].data_type = fmt_in.declared[2].data_type
    /\ fmt_in.declared[1].endianness = fmt_in.declared[2].endianness

ReconstructCalls == Calls("Reconstruct")

PixelCalls == Calls("PixelDecode")

EncodeCalls == Calls("Encode")

DecodeCalls == ReconstructCalls \cup PixelCalls

\* call k is a reconstruct call that failed and left the JPEG buffer empty
IsFallback(k) ==
    /\ log[k].op = "Reconstruct"
    /\ ~log[k].ok
    /\ log[k].n = 0

FellBack == \E k \in 1..Len(log) : IsFallback(k)

\* positions of main() inside the block of line 535, after its set-up
PastPixelSetup ==
    pc \in { "pixel_decode", "decoded", "encode", "fanout", "side", "finish",
             "done" }

\* C1: once a reconstruct call has failed with zero bytes produced, the run
\* leaves the reconstruct loop for the pixel-decode block, enters that block
\* exactly once, and makes no further reconstruct call.
C1_FallbackOnce ==
    \A k \in 1..Len(log) :
        IsFallback(k) =>
            /\ \A m \in (k + 1)..Len(log) : log[m].op # "Reconstruct"
            /\ pc # "reconstruct"
            /\ decode_to_pixels
            /\ Cardinality(Calls("FromExtension")) <= 1
            /\ PastPixelSetup =>
                  /\ Cardinality(Calls("FromExtension")) = 1
                  /\ \A m \in Calls("FromExtension") : m > k

\* the reconstruct call failed with nothing produced, and the pixel path
\* then decoded num_reps = 2 times and the run succeeded
C1_Witness ==
    /\ FellBack
    /\ Cardinality(ReconstructCalls) = 1
    /\ args.num_reps = 2
    /\ Cardinality(PixelCalls) = 2
    /\ pc = "done"
    /\ exit_code = "EXIT_SUCCESS"

\* C2: a reconstruct call that fails after an earlier reconstruct call left
\* bytes in the buffer ends the run with EXIT_FAILURE: it is the last call,
\* and no pixel decode and no file write has been made.
C2_FailureAfterBytesIsFatal ==
    \A k \in 1..Len(log) :
        ( /\ log[k].op = "Reconstruct"
          /\ ~log[k].ok
          /\ \E j \in 1..(k - 1) : log[j].op = "Reconstruct" /\ log[j].n > 0 )
        => /\ k = Len(log)
           /\ pc = "done"
           /\ exit_code = "EXIT_FAILURE"
           /\ PixelCalls = {}
           /\ AllWrites = {}

\* the first reconstruct call succeeded with bytes and the second one failed
C2_Witness ==
    /\ Len(log) >= 3
    /\ log[Len(log) - 1].op = "Reconstruct"
    /\ log[Len(log) - 1].ok
    /\ log[Len(log) - 1].n > 0
    /\ log[Len(log)].op = "Reconstruct"
    /\ ~log[Len(log)].ok

\* C3: a failed pixel-decode call is the last call of the run, which ends
\* with EXIT_FAILURE without an Encode call and without any file written.
C3_PixelFailureIsFatal ==
    \A k \in 1..Len(log) :
        (log[k].op = "PixelDecode" /\ ~log[k].ok)
        => /\ k = Len(log)
           /\ pc = "done"
           /\ exit_code = "EXIT_FAILURE"
           /\ EncodeCalls = {}
           /\ AllWrites = {}

\* after a fallback, the second pixel-decode call failed
C3_Witness ==
    /\ FellBack
    /\ Cardinality(PixelCalls) = 2
    /\ ~log[Len(log)].ok
    /\ log[Len(log)].op = "PixelDecode"

\* C4: reconstruct and pixel-decode calls occur in the same run only across
\* the fallback: every reconstruct call is at or before a failed, zero-byte
\* reconstruct call and every pixel-decode call after it.  A run that made
\* reconstruct calls and did not fall back makes no pixel-decode and no Encode
\* call and writes nothing but the reconstructed stream; a run that wrote the
\* reconstructed stream never decodes to pixels.
C4_OneEffectivePath ==
    /\ (ReconstructCalls # {} /\ PixelCalls # {}) =>
          \E k \in 1..Len(log) :
              /\ IsFallback(k)
              /\ \A m \in ReconstructCalls : m <= k
              /\ \A m \in PixelCalls : m > k
    /\ (ReconstructCalls # {} /\ ~FellBack) =>
          /\ PixelCalls = {}
          /\ EncodeCalls = {}
          /\ AllWrites = Writes("jpeg")
          /\ Cardinality(AllWrites) <= 1
    /\ Writes("jpeg") # {} =>
          /\ PixelCalls = {}
          /\ EncodeCalls = {}
          /\ pc \notin { "pixel_setup", "pixel_decode", "decoded", "encode",
                         "fanout", "side" }

\* two reconstruct calls succeeded, the stream was written, the run succeeded
C4_Witness ==
    /\ Cardinality(ReconstructCalls) = 2
    /\ \A k \in ReconstructCalls : log[k].ok
    /\ Cardinality(Writes("jpeg")) = 1
    /\ pc = "done"
    /\ exit_code = "EXIT_SUCCESS"

\* the condition C5 names: JPEG output, neither --pixels_to_jpeg nor
\* --jpeg_quality given
WantsReconstruction ==
    /\ codec = "kJPG"
    /\ ~args.pixels_to_jpeg
    /\ ~cmdline.jpeg_quality_matched

FirstDecodeCall ==
    LET d == DecodeCalls IN CHOOSE k \in d : \A m \in d : k <= m

\* C5: the reconstruct loop is entered iff the output codec is JPEG and
\* neither --pixels_to_jpeg nor --jpeg_quality was given; the first decode
\* call is a reconstruct call in exactly that case, and otherwise no
\* reconstruct call is made at all.
C5_PathFixedBeforeDecoding ==
    /\ pc = "reconstruct" => WantsReconstruction
    /\ (pc \in { "pixel_setup", "pixel_decode" } /\ ~FellBack)
          => ~WantsReconstruction
    /\ DecodeCalls # {} =>
          (log[FirstDecodeCall].op = "Reconstruct" <=> WantsReconstruction)
    /\ ~WantsReconstruction => ReconstructCalls = {}

\* JPEG output with --jpeg_quality: the first decode call is a pixel decode
C5_Witness ==
    /\ codec = "kJPG"
    /\ cmdline.jpeg_quality_matched
    /\ ~args.pixels_to_jpeg
    /\ DecodeCalls # {}
    /\ log[FirstDecodeCall].op = "PixelDecode"

\* C6: a successful run on the pixel path whose encoder returned one frame
\* and no extra channel made num_reps pixel-decode calls, one Encode call and
\* one main output write, for num_reps >= 1.
C6_OneWriteForAllReps ==
    ( /\ pc = "done"
      /\ exit_code = "EXIT_SUCCESS"
      /\ encoder
      /\ encoded_image = [ bitstreams |-> 1, extra_channel_bitstreams |-> << >> ]
      /\ args.num_reps >= 1 )
    => /\ Cardinality(PixelCalls) = args.num_reps
       /\ Cardinality(EncodeCalls) = 1
       /\ Cardinality(Writes("main")) = 1

\* such a run with num_reps = 2
C6_Witness ==
    /\ pc = "done"
    /\ exit_code = "EXIT_SUCCESS"
    /\ encoded_image = [ bitstreams |-> 1, extra_channel_bitstreams |-> << >> ]
    /\ args.num_reps = 2
    /\ Cardinality(PixelCalls) = 2
    /\ Cardinality(Writes("main")) = 1

\* C7: the number of samples in SpeedStats is the number of decode calls
\* (reconstruct and pixel) that have succeeded so far; a failed call adds none.
C7_SamplesAreCompletedIterations ==
    stats = Cardinality({ k \in DecodeCalls : log[k].ok })

\* a failed reconstruct call, then two successful pixel decodes
C7_Witness ==
    /\ \E k \in ReconstructCalls : ~log[k].ok
    /\ Cardinality({ k \in PixelCalls : log[k].ok }) = 2
    /\ stats >= 2

\* the loop bounds as C15 states them
LayerCount ==
    IF args.output_extra_channels
    THEN 1 + Len(encoded_image.extra_channel_bitstreams) ELSE 1

FrameCount ==
    IF args.output_frames \/ ~args.coalescing
    THEN encoded_image.bitstreams ELSE 1

EncodeSucceeded == \E k \in EncodeCalls : log[k].ok

NoWriteFailed == \A k \in AllWrites : log[k].ok

\* every (layer, frame) of the grid has its write: the bitstream the pair
\* selects, to the path Filename derives, and there is no other main write
GridWritten ==
    /\ Cardinality(Writes("main")) = LayerCount * FrameCount
    /\ \A l \in 0..(LayerCount - 1), f \in 0..(FrameCount - 1) :
          \E k \in Writes("main") :
             /\ log[k].layer = l
             /\ log[k].frame = f
             /\ log[k].n = 1
             /\ log[k].path = Filename(filename_out, extension, l, f,
                                       LayerCount, FrameCount)

\* every bitstream the grid selects is held by the encoded image
SelectedBitstreamsExist ==
    /\ FrameCount <= encoded_image.bitstreams
    /\ \A g \in 1..(LayerCount - 1) :
          FrameCount <= encoded_image.extra_channel_bitstreams[g]

\* C15 as stated: a run that has ended after a successful Encode without a
\* failed write made exactly layerCount x frameCount main writes, one per
\* (layer, frame), each of the bitstream the pair selects and to the path
\* Filename derives for the pair.
C15_FanoutAsStated ==
    (pc = "done" /\ EncodeSucceeded /\ NoWriteFailed) => GridWritten

\* the same for the runs in which every selected bitstream exists
C15_FanoutWhenBitstreamsExist ==
    (pc = "done" /\ EncodeSucceeded /\ NoWriteFailed
        /\ SelectedBitstreamsExist) => GridWritten

\* the encoder returned no primary bitstream, the frames are coalesced, and
\* the run died in the first iteration of the fan-out
C15_Witness ==
    /\ pc = "done"
    /\ exit_code = "CRASH"
    /\ encoded_image.bitstreams = 0
    /\ args.coalescing /\ ~args.output_frames
    /\ Writes("main") = {}

\* C16: a failed main output write is the last call of the run, so no later
\* (layer, frame) and no side file is written after it, and the run ends
\* with EXIT_FAILURE; a failed write of the reconstructed stream ends the
\* run with EXIT_FAILURE as well.
C16_WriteFailureAborts ==
    \A k \in Writes("main") \cup Writes("jpeg") :
        ~log[k].ok =>
            /\ k = Len(log)
            /\ pc = "done"
            /\ exit_code = "EXIT_FAILURE"

\* the write of the second pair failed while a later pair was still due
C16_Witness ==
    /\ Cardinality(Writes("main")) = 2
    /\ log[Len(log)].op = "WriteFile"
    /\ log[Len(log)].what = "main"
    /\ ~log[Len(log)].ok
    /\ nlayers * nframes > 2
    /\ exit_code = "EXIT_FAILURE"

\* side file k of lines 627-631: its destination was given and its buffer
\* holds bytes
SideWanted(k) == args[Sides[k]] # "" /\ buffers[SideBuffer[k]] > 0

SideWritten(k) == Writes(Sides[k]) # {}

SideWrites == UNION { Writes(Sides[k]) : k \in 1..4 }

\* C17 as stated: when the run has ended, each side file has been written
\* iff its destination path was configured and its buffer is non-empty.
C17_WrittenIffConfiguredAndNonEmpty ==
    pc = "done" => \A k \in 1..4 : SideWritten(k) <=> SideWanted(k)

\* C17 amended: when the run has ended, each side file has been written iff
\* an output encoder was selected, its path was configured, its buffer is
\* non-empty and no side file before it in the order preview, ICC, original
\* ICC, metadata failed to be written.
\* Every side write comes after all nlayers x nframes main writes, none of
\* which failed.  A run that reached the side files and had no failed write
\* ends with EXIT_SUCCESS, whatever was unconfigured or empty.
C17_SideFiles ==
    /\ pc = "done" =>
          \A k \in 1..4 :
             SideWritten(k) <=>
                /\ encoder
                /\ SideWanted(k)
                /\ \A j \in 1..(k - 1) : \A m \in Writes(Sides[j]) : log[m].ok
    /\ LET sw == SideWrites
           mw == Writes("main")
       IN sw # {} =>
             /\ Cardinality(mw) = nlayers * nframes
             /\ \A w \in mw : log[w].ok /\ \A m \in sw : w < m
    /\ (pc = "done" /\ EncodeSucceeded /\ NoWriteFailed
           /\ exit_code # "CRASH") => exit_code = "EXIT_SUCCESS"

\* the preview and the ICC profile have a destination and no bytes, the
\* original ICC profile has both and was written, the metadata has bytes and
\* no destination, and the run succeeded
C17_Witness ==
    /\ pc = "done"
    /\ exit_code = "EXIT_SUCCESS"
    /\ args.preview_out # "" /\ buffers.preview_bitstream = 0
    /\ args.metadata_out = "" /\ buffers.metadata > 0
    /\ SideWrites = Writes("orig_icc_out")
    /\ Cardinality(SideWrites) = 1

\* the command line parsed and asks neither for the version nor for help
AsksForDecoding == cmdline.parsed /\ ~args.version /\ ~cmdline.help

\* main() went on to read the input
Proceeds == AsksForDecoding /\ args.file_in # nullptr

ReadFailed == \E k \in Calls("ReadFile") : ~log[k].ok

\* a call that failed, other than the reconstruct call main() falls back from
FatalCalls == { k \in 1..Len(log) : ~log[k].ok /\ ~IsFallback(k) }

\* C18 as stated, its case of the missing INPUT: a run whose command line
\* parsed, without the version flag and without INPUT, exits non-zero.
C18_MissingInputFails ==
    (pc = "done" /\ cmdline.parsed /\ ~args.version
        /\ args.file_in = nullptr) => exit_code # "EXIT_SUCCESS"

\* What holds of the exit code: a finished run returns EXIT_FAILURE when the command line
\* did not parse, when INPUT is present and --num_threads < -1, the input is
\* unreadable, there is no OUTPUT and no --disable_output, the output
\* extension has no encoder, or a decode (other than the one fallen back
\* from), alpha-blend, encode or write call failed; a parsed command line
\* without INPUT shows the help and returns EXIT_SUCCESS like --help and
\* --version, before anything is read.  EXIT_SUCCESS is returned only for
\* those displays and for a run none of whose calls failed fatally.
C18_ExitCodes ==
    pc = "done" =>
        /\ ~cmdline.parsed => exit_code = "EXIT_FAILURE"
        /\ (cmdline.parsed /\ (args.version \/ cmdline.help
                                   \/ args.file_in = nullptr))
              => (exit_code = "EXIT_SUCCESS" /\ log = << >>)
        /\ (Proceeds /\ args.num_threads < -1)
              => (exit_code = "EXIT_FAILURE" /\ log = << >>)
        /\ (Proceeds /\ ReadFailed) => exit_code = "EXIT_FAILURE"
        /\ (Proceeds /\ args.num_threads >= -1 /\ args.file_out = nullptr
               /\ ~args.disable_output)
              => (exit_code = "EXIT_FAILURE" /\ DecodeCalls = {})
        /\ (\E k \in Calls("FromExtension") : ~log[k].ok)
              => (exit_code = "EXIT_FAILURE" /\ PixelCalls = {})
        /\ FatalCalls # {} => exit_code = "EXIT_FAILURE"
        /\ exit_code = "EXIT_SUCCESS" =>
              \/ /\ log = << >>
                 /\ cmdline.parsed
                 /\ args.version \/ cmdline.help \/ args.file_in = nullptr
              \/ /\ Proceeds
                 /\ args.num_threads >= -1
                 /\ HasOutputTarget(args)
                 /\ FatalCalls = {}

\* no INPUT and --num_threads=-2: the help was shown and the run returned 0
C18_Witness ==
    /\ pc = "done"
    /\ cmdline.parsed /\ ~cmdline.help /\ ~args.version
    /\ args.file_in = nullptr
    /\ args.num_threads = -2
    /\ exit_code = "EXIT_SUCCESS"

(***************************************************************************)
(* Properties of the bit depth, checked under SpecBitDepth.                *)
(***************************************************************************)
\* the value the user gave for --bits_per_sample, -1 when none was given
GivenBitsPerSample ==
    IF \E k \in Calls("ParseSigned") : TRUE
    THEN log[CHOOSE k \in Calls("ParseSigned") : TRUE].n
    ELSE -1

\* pixel-decode call k requests the output bit depth that stands for `bits`
Requests(k, bits) ==
    IF bits > 0
    THEN log[k].what = "JXL_BIT_DEPTH_CUSTOM" /\ log[k].n = bits
    ELSE IF bits = 0
    THEN log[k].what = "JXL_BIT_DEPTH_FROM_CODESTREAM"
    ELSE log[k].what = "default"

PnmFamilyOutput == codec = "kPNM" /\ extension # ".pfm"

\* C19 as stated: for every output codec each pixel-decode call requests
\* the bit depth the user gave (custom N for N > 0, the source depth for 0,
\* the engine default for -1); without a user value it requests the source
\* depth only for PNM-family output, and the engine default otherwise.
C19_UserBitDepthReachesDecode ==
    \A k \in PixelCalls :
        IF cmdline.bits_per_sample_matched
        THEN Requests(k, GivenBitsPerSample)
        ELSE IF PnmFamilyOutput
        THEN Requests(k, 0) \/ Requests(k, -1)
        ELSE Requests(k, -1)

\* What the code does: for PNM-family output each pixel-decode call requests
\* the source depth whatever the user gave, unless --jpeg_quality was given;
\* in every other case it requests what the user gave, -1 when nothing.
C19_BitDepthInCode ==
    \A k \in PixelCalls :
        IF PnmFamilyOutput /\ ~cmdline.jpeg_quality_matched
        THEN Requests(k, 0)
        ELSE Requests(k, GivenBitsPerSample)

\* --bits_per_sample 8 with PPM output: the decode asked for the source depth
C19_Witness ==
    /\ codec = "kPNM"
    /\ extension = ".ppm"
    /\ cmdline.bits_per_sample_matched
    /\ GivenBitsPerSample = 8
    /\ PixelCalls # {}
    /\ \A k \in PixelCalls : log[k].what = "JXL_BIT_DEPTH_FROM_CODESTREAM"

(***************************************************************************)
(* Further properties of main(), checked under Spec.                       *)
(***************************************************************************)
\* C20: with --disable_output no file is written (no main output, no
\* reconstructed JPEG, no side file even when its path is configured and
\* its buffer holds bytes), no encoder is looked up or invoked, no
\* reconstruct call is made, and the decode is the pixel decode: at most
\* num_reps calls, of which a failed one ends the run, and exactly num_reps
\* calls when the run succeeds.
C20_DisableOutput ==
    args.disable_output =>
        /\ AllWrites = {}
        /\ Calls("FromExtension") = {}
        /\ EncodeCalls = {}
        /\ Calls("AlphaBlend") = {}
        /\ ~encoder
        /\ ReconstructCalls = {}
        /\ pc \notin { "reconstruct", "reconstructed", "encode", "fanout",
                       "side" }
        /\ Cardinality(PixelCalls) <= args.num_reps
        /\ \A k \in PixelCalls : ~log[k].ok => (k = Len(log) /\ pc = "done")
        /\ (pc = "done" /\ exit_code = "EXIT_SUCCESS")
              => Cardinality(PixelCalls) = args.num_reps

\* --disable_output together with OUTPUT and destinations for the side
\* files: two pixel decodes for num_reps = 2 and a successful end
C20_Witness ==
    /\ args.disable_output
    /\ args.file_out = "out"
    /\ args.icc_out # "" /\ buffers.icc > 0
    /\ args.num_reps = 2
    /\ Cardinality(PixelCalls) = 2
    /\ pc = "done"
    /\ exit_code = "EXIT_SUCCESS"

(***************************************************************************)
(* C21: a rejected background specification.                               *)
(***************************************************************************)
\* the run asked for alpha blending over a background that is neither a
\* colour name nor seven characters beginning with '#'
RejectedBackground ==
    /\ args.alpha_blend
    /\ args.background_spec \notin { "black", "white" }
    /\ ( Len(args.background_spec) # 7
         \/ SubSeq(args.background_spec, 1, 1) # "#" )

BlendCalls == Calls("AlphaBlend")

\* C21: when alpha blending is requested and the background is rejected, the
\* error is reported and AlphaBlend is called all the same, right after the
\* report; when AlphaBlend succeeds the encoder is the next call, and the run
\* returns EXIT_SUCCESS if the encoder and every write succeed too (a run that
\* undefined behaviour in the fan-out ended has no return value); when
\* AlphaBlend fails it is the last call, the encoder is never called and the
\* run returns EXIT_FAILURE; and a run that returns without having called the
\* encoder is one whose AlphaBlend failed.
C21_RejectedBackgroundContinues ==
    RejectedBackground =>
       /\ Cardinality(BlendCalls) = 1
       /\ \A k \in BlendCalls :
             /\ k > 1
             /\ log[k - 1].op = "fprintf"
             /\ log[k - 1].what = "Invalid background color"
             /\ Calls("fprintf") = { k - 1 }
             /\ \A d \in PixelCalls : d < k - 1
             /\ IF log[k].ok
                THEN /\ IF k = Len(log) THEN pc = "encode"
                        ELSE log[k + 1].op = "Encode"
                     /\ \A e \in EncodeCalls : e = k + 1
                     /\ ( pc = "done" /\ EncodeSucceeded /\ NoWriteFailed
                            /\ exit_code # "CRASH" )
                        => exit_code = "EXIT_SUCCESS"
                ELSE /\ k = Len(log)
                     /\ pc = "done"
                     /\ exit_code = "EXIT_FAILURE"
                     /\ EncodeCalls = {}
                     /\ AllWrites = {}
             /\ (pc = "done" /\ EncodeCalls = {}) => ~log[k].ok

\* a run with the background "red" in which AlphaBlend and the encoder
\* succeeded, a file was written and main() returned EXIT_SUCCESS
C21_Witness ==
    /\ RejectedBackground
    /\ \E k \in BlendCalls : log[k].ok /\ log[k].what = "garbage"
    /\ EncodeSucceeded
    /\ Writes("main") # {}
    /\ pc = "done"
    /\ exit_code = "EXIT_SUCCESS"

(***************************************************************************)
(* C22: nothing is written before decoding has finished.                   *)
(***************************************************************************)
\* the calls whose failure the claim names: a decode that is not the
\* fallback, AlphaBlend or Encode
FailedBeforeOutput ==
    { k \in FatalCalls :
         log[k].op \in { "Reconstruct", "PixelDecode", "AlphaBlend", "Encode" } }

\* C22: every main or side write comes after num_reps pixel-decode calls,
\* all successful, and after the one Encode call, which succeeded and
\* followed them; the reconstructed
\* JPEG is written at most once, after num_reps successful reconstruct calls
\* and no failed one; no file has been written while either repeat loop, the
\* alpha blending or the encoding is still to end; and a run in which a
\* decode, AlphaBlend or Encode failure was fatal has written no file.
C22_NoWriteBeforeDecodingEnds ==
    LET jpeg == Writes("jpeg")
        out == AllWrites \ jpeg
        pix == PixelCalls
        enc == EncodeCalls
        rec == ReconstructCalls
    IN /\ out # {} =>
             /\ Cardinality(pix) = args.num_reps
             /\ \A d \in pix : log[d].ok
             /\ Cardinality(enc) = 1
             /\ \A e \in enc :
                   /\ log[e].ok
                   /\ \A d \in pix : d < e
                   /\ \A w \in out : e < w
       /\ jpeg # {} =>
             /\ Cardinality(jpeg) = 1
             /\ out = {}
             /\ Cardinality(rec) = args.num_reps
             /\ \A w \in jpeg :
                   /\ \A d \in rec : log[d].ok /\ d < w
                   /\ log[w].n = bytes
       /\ pc \in { "reconstruct", "pixel_setup", "pixel_decode", "decoded",
                   "encode" } => jpeg \cup out = {}
       /\ jpeg \cup out # {} => FailedBeforeOutput = {}

\* after a fallback, two pixel decodes and the Encode call, a main file and
\* a side file have been written
C22_Witness ==
    /\ FellBack
    /\ args.num_reps = 2
    /\ Cardinality(PixelCalls) = 2
    /\ Writes("main") # {}
    /\ SideWrites # {}
    /\ \A w \in AllWrites : \E e \in EncodeCalls : e < w
    /\ pc = "done"

(***************************************************************************)
(* C23: the accesses of the fan-out.                                       *)
(***************************************************************************)
\* the number of bitstreams in the sequence that layer l selects, or -1 when
\* there is no such sequence
SelectedSequenceSize(l) ==
    IF l = 0 THEN encoded_image.bitstreams
    ELSE IF l <= Len(encoded_image.extra_channel_bitstreams)
    THEN encoded_image.extra_channel_bitstreams[l]
    ELSE -1

\* C23 as stated: whenever the (layer, frame) loop is about to select a
\* bitstream, the frame index is below the size of the sequence the layer
\* selects, and no main write has been made of bytes that are no bitstream
\* of the encoded image.
C23_AccessesInBounds ==
    /\ ( pc = "fanout" /\ layer < nlayers /\ frame < nframes )
          => frame < SelectedSequenceSize(layer)
    /\ \A k \in Writes("main") : log[k].n = 1

\* the frames are written apart, the extra-channel group holds one bitstream
\* fewer than the primary group, and the loop has written what it found past
\* the end of that group
C23_Witness ==
    /\ args.output_extra_channels
    /\ nframes = 2
    /\ encoded_image.bitstreams = 2
    /\ encoded_image.extra_channel_bitstreams = << 1 >>
    /\ \E k \in Writes("main") :
          /\ log[k].layer = 1
          /\ log[k].frame = 1
          /\ log[k].n = -1
    /\ \A k \in Writes("main") : log[k].layer = 0 => log[k].n = 1
====
